---- MODULE Spec2Model ----
(***************************************************************************)
(* Model of the RegicideOS installer's disk-layout engine:                 *)
(*   - human_to_bytes, get_drive_size, check_drive_size (pure functions),   *)
(*   - partition_drive of drive.py and of installer.py, step by step, with  *)
(*     the log of every common.execute call.                                *)
(* Python integers are unbounded; numbers that do not fit the model        *)
(* checker's integers are kept as little-endian sequences of base-1024     *)
(* limbs ("Big" numbers).                                                   *)
(***************************************************************************)
EXTENDS Integers, Sequences, FiniteSets, TLC

VARIABLES
    fn, arg, ret,                \* pure-function harness: function, input, result
    impl, efi, PRETEND,          \* which partition_drive, /sys/firmware/efi present, common.PRETEND
    layout, lsblkOut, vgsOut,    \* inputs: layout, stdout of lsblk -bo SIZE, stdout lines of vgs
    pc, calls,                   \* position in partition_drive, log of execute() calls
    vgs, vgIdx, idx,             \* locals: vgs list, for-loop positions
    drive_size, running_drive_size, command, err,
    fdrive, flayout, table,      \* format_drive inputs: base device, layout, names lsblk lists
    stack, fcalls, fpc, ferr,    \* format_drive call stack, log of execute() calls, position, exception
    cmdFailed,                   \* a command has exited with a non-zero status
    cur, parked,                 \* two format_drive processes: the one running, the other's state
    entry, interactive,          \* main(): which entry point, no config file given
    fileOk, envOk,               \* the config file exists; repository and manifests list the defaults
    config, mpc, pstack,         \* configuration, position in main(), parse_config activations
    answers, events              \* prompts answered, log of what main() did

vars == <<fn, arg, ret, impl, efi, PRETEND, layout, lsblkOut, vgsOut, pc, calls,
          vgs, vgIdx, idx, drive_size, running_drive_size, command, err,
          fdrive, flayout, table, stack, fcalls, fpc, ferr, cmdFailed,
          cur, parked, entry, interactive, fileOk, envOk, config, mpc, pstack,
          answers, events>>

sessVars == <<cur, parked>>
mainVars == <<entry, interactive, fileOk, envOk, config, mpc, pstack, answers, events>>

pureVars == <<fn, arg, ret>>
fmtVars == <<fdrive, flayout, table, stack, fcalls, fpc, ferr, cmdFailed>>
partVars == <<impl, efi, PRETEND, layout, lsblkOut, vgsOut, pc, calls,
              vgs, vgIdx, idx, drive_size, running_drive_size, command, err>>

----------------------------------------------------------------------------
(* Bounds of the model *)
MaxN == 24
MaxLayers == 3
MaxVgs == 2
Span == 30

----------------------------------------------------------------------------
(* Characters and decimal strings; a string is a sequence of characters *)
Digits == {"0", "1", "2", "3", "4", "5", "6", "7", "8", "9"}

DigitVal == "0" :> 0 @@ "1" :> 1 @@ "2" :> 2 @@ "3" :> 3 @@ "4" :> 4 @@
            "5" :> 5 @@ "6" :> 6 @@ "7" :> 7 @@ "8" :> 8 @@ "9" :> 9

DigitChar == <<"0", "1", "2", "3", "4", "5", "6", "7", "8", "9">>

Front(s) == SubSeq(s, 1, Len(s) - 1)

Last(s) == s[Len(s)]

IsDecimal(s) == Len(s) > 0 /\ \A i \in 1..Len(s) : s[i] \in Digits

----------------------------------------------------------------------------
(* Unbounded naturals: little-endian limbs in base 1024, no high zero limb *)
Base == 1024

RECURSIVE BigNorm(_)
BigNorm(b) == IF b = <<>> THEN <<>>
              ELSE IF Last(b) = 0 THEN BigNorm(Front(b)) ELSE b

RECURSIVE BigFromNat(_)
BigFromNat(n) == IF n = 0 THEN <<>>
                 ELSE <<n % Base>> \o BigFromNat(n \div Base)

RECURSIVE BigToInt(_)
BigToInt(b) == IF b = <<>> THEN 0 ELSE b[1] + Base * BigToInt(Tail(b))

\* b * m + c for a small multiplier m and carry c
RECURSIVE BigMulAdd(_, _, _)
BigMulAdd(b, m, c) ==
    IF b = <<>> THEN BigFromNat(c)
    ELSE LET t == b[1] * m + c
         IN  <<t % Base>> \o BigMulAdd(Tail(b), m, t \div Base)

RECURSIVE BigAddC(_, _, _)
BigAddC(a, b, c) ==
    IF a = <<>> /\ b = <<>> THEN BigFromNat(c)
    ELSE LET x == IF a = <<>> THEN 0 ELSE a[1]
             y == IF b = <<>> THEN 0 ELSE b[1]
             t == x + y + c
         IN  <<t % Base>> \o BigAddC(IF a = <<>> THEN <<>> ELSE Tail(a),
                                     IF b = <<>> THEN <<>> ELSE Tail(b),
                                     t \div Base)

BigAdd(a, b) == BigNorm(BigAddC(a, b, 0))

RECURSIVE BigMul(_, _)
BigMul(a, b) ==
    IF a = <<>> \/ b = <<>> THEN <<>>
    ELSE BigAdd(BigNorm(BigMulAdd(a, b[1], 0)),
                BigNorm(<<0>> \o BigMul(a, Tail(b))))

RECURSIVE BigPow(_, _)
BigPow(a, k) == IF k = 0 THEN <<1>> ELSE BigMul(a, BigPow(a, k - 1))

RECURSIVE BigGT(_, _)
BigGT(a, b) ==
    IF Len(a) # Len(b) THEN Len(a) > Len(b)
    ELSE IF a = <<>> THEN FALSE
    ELSE IF Last(a) # Last(b) THEN Last(a) > Last(b)
    ELSE BigGT(Front(a), Front(b))

\* Python int(s) for a string of decimal digits
RECURSIVE ParseInt(_)
ParseInt(s) == IF s = <<>> THEN <<>>
               ELSE BigNorm(BigMulAdd(ParseInt(Front(s)), 10, DigitVal[Last(s)]))

\* Python str(n) for a natural number n
RECURSIVE ToDecimal(_)
ToDecimal(n) == IF n < 10 THEN <<DigitChar[n + 1]>>
                ELSE ToDecimal(n \div 10) \o <<DigitChar[(n % 10) + 1]>>

----------------------------------------------------------------------------
(* drive.human_to_bytes *)
Units == {"B", "K", "M", "G", "T", "P"}

sizes_wrong == "B" :> BigFromNat(1) @@ "K" :> BigFromNat(1024) @@
               "M" :> BigPow(BigFromNat(1024), 2) @@ "G" :> BigPow(BigFromNat(1024), 3) @@
               "T" :> BigPow(BigFromNat(1024), 4) @@ "P" :> BigPow(BigFromNat(1024), 4)

sizes == "B" :> BigFromNat(1) @@ "K" :> BigFromNat(1024) @@
         "M" :> BigPow(BigFromNat(1024), 2) @@ "G" :> BigPow(BigFromNat(1024), 3) @@
         "T" :> BigPow(BigFromNat(1024), 4) @@ "P" :> BigPow(BigFromNat(1024), 5)

Value(v) == [err |-> "", val |-> v, bool |-> FALSE]
Bool(b) == [err |-> "", val |-> <<>>, bool |-> b]
Raise(e) == [err |-> e, val |-> <<>>, bool |-> FALSE]
NoRet == Raise("none")

\* int(size[:-1]) is evaluated first, then the sizes[size[-1]] lookup
human_to_bytes(size) ==
    IF size = <<>> \/ ~IsDecimal(Front(size)) THEN Raise("ValueError")
    ELSE IF Last(size) \notin DOMAIN sizes THEN Raise("KeyError")
    ELSE Value(BigMul(ParseInt(Front(size)), sizes[Last(size)]))

----------------------------------------------------------------------------
(* common.get_drive_size and common.check_drive_size; out is the stripped   *)
(* stdout of "lsblk -bo SIZE <drive> | grep -v -m 1 SIZE"                   *)
get_drive_size(out) == IF out # <<>> THEN ParseInt(out) ELSE <<>>

\* 12884901888 = 12 * 1024^3
MinDriveSize == <<0, 0, 0, 12>>

check_drive_size(out) == BigGT(get_drive_size(out), MinDriveSize)

----------------------------------------------------------------------------
(* Layouts: a layer is [size, type]; size is a string or the sentinel True *)
TrueSize == <<"True">>

Layer(size, type) == [size |-> size, type |-> type]

Layers == { Layer(<<"5", "1", "2", "K">>, "uefi"),
            Layer(<<"7", "6", "8", "K">>, "linux"),
            Layer(<<"3", "0", "%">>, "linux"),
            Layer(TrueSize, "linux"),
            Layer(<<"1", "0", "X">>, "linux"),
            Layer(<<"x", "M">>, "lvm") }

Layouts == UNION { [1..n -> Layers] : n \in 0..MaxLayers }

\* stdout of lsblk: nothing (unknown device), 1.5 MiB + 1, 2 MiB
DriveSizes == { <<>>, <<"1", "5", "7", "2", "8", "6", "5">>,
                <<"2", "0", "9", "7", "1", "5", "2">> }

VgNames == <<"vg0", "vg1", "vg2", "vg3">>

\* stdout of "vgs | awk '{ print $1 }' | grep -vw VG": one name and a newline
\* per volume group, as a sequence of chunks (a name, or the newline)
RECURSIVE VgsStdout(_)
VgsStdout(n) == IF n = 0 THEN <<>> ELSE VgsStdout(n - 1) \o <<VgNames[n], "\n">>

VgsOutputs == { VgsStdout(n) : n \in 0..MaxVgs }

----------------------------------------------------------------------------
(* common.execute: the call is logged; it runs unless PRETEND without override *)
CallAlwaysRuns(tool, a, script, override) ==
    [tool |-> tool, arg |-> a, script |-> script, ran |-> TRUE]

Call(tool, a, script, override) ==
    [tool |-> tool, arg |-> a, script |-> script, ran |-> (~PRETEND) \/ override]

None == [isNone |-> TRUE, list |-> <<>>]
Some(l) == [isNone |-> FALSE, list |-> l]

\* bytes.splitlines(): the lines without their newline; a final newline
\* opens no further line
RECURSIVE splitlines(_)
splitlines(out) ==
    IF out = <<>> THEN <<>>
    ELSE IF \E i \in 1..Len(out) : out[i] = "\n"
    THEN LET i == CHOOSE j \in 1..Len(out) :
                     out[j] = "\n" /\ \A k \in 1..(j - 1) : out[k] # "\n"
         IN  <<SubSeq(out, 1, i - 1)>> \o splitlines(SubSeq(out, i + 1, Len(out)))
    ELSE <<out>>

\* line.strip().decode("UTF-8") of one line: its text, "" for a blank line
RECURSIVE strip_decode(_)
strip_decode(line) ==
    IF line = <<>> THEN ""
    ELSE IF Head(line) = " " THEN strip_decode(Tail(line))
    ELSE Head(line)


\* the same list without its last line
vg_lines_short(out) ==
    LET ls == splitlines(out) IN [i \in 1..(Len(ls) - 1) |-> strip_decode(ls[i])]

\* [line.strip().decode("UTF-8") for line in vgs.splitlines()]
vg_lines(out) == LET ls == splitlines(out) IN [i \in 1..Len(ls) |-> strip_decode(ls[i])]

----------------------------------------------------------------------------
(* Lines of the sfdisk script *)
NoSize == [kind |-> "none", num |-> 0, den |-> 1, tok |-> <<>>]
NumSize(n) == [kind |-> "num", num |-> n, den |-> 1, tok |-> <<>>]
TokSize(t) == [kind |-> "tok", num |-> 0, den |-> 1, tok |-> t]
KSize(n, d) == [kind |-> "K", num |-> n, den |-> d, tok |-> <<>>]

LabelLine == [text |-> "label: gpt", size |-> NoSize, type |-> ""]
EntryLineFixedType(size, type) == [text |-> "entry", size |-> size, type |-> "linux"]

EntryLine(size, type) == [text |-> "entry", size |-> size, type |-> type]

BiosReserve == 1048576

\* running_drive_size before the loop
InitialRunning(W) == IF impl = "drive" THEN 0 - BiosReserve ELSE W - BiosReserve

\* running_drive_size += n (drive.py), -= n (installer.py)
Account(running, n) == IF impl = "drive" THEN running + n ELSE running - n

\* size=<running*1024>K (drive.py), size=<running/1024>K (installer.py)
RemainderSize(running) ==
    IF impl = "drive" THEN KSize(running * 1024, 1) ELSE KSize(running, 1024)

\* the percentage taken of the space the preceding siblings have left
PercentSizesOfRest(W, pct) ==
    LET rest == IF impl = "drive" THEN W - (running_drive_size + BiosReserve)
                ELSE running_drive_size + BiosReserve
        q == (rest * pct) \div 100
        r == (rest * pct) % 100
    IN  IF r < 50 THEN {q} ELSE IF r > 50 THEN {q + 1} ELSE {q, q + 1}

\* round(drive_size * (float(pct) / 100), 0): the nearest integer; when the
\* exact quotient lies halfway, the binary floating-point product decides
PercentSizes(W, pct) ==
    LET q == (W * pct) \div 100
        r == (W * pct) % 100
    IN  IF r < 50 THEN {q} ELSE IF r > 50 THEN {q + 1} ELSE {q, q + 1}


Outcome(e, size, running) == [err |-> e, size |-> size, running |-> running]

\* the remainder entry is given a size on UEFI systems too
LayerOutcomesSized(partition, W, running) ==
    LET size == partition.size IN
    IF size = TrueSize
    THEN { Outcome("", RemainderSize(running), running) }
    ELSE IF size = <<>> THEN { Outcome("IndexError", NoSize, running) }
    ELSE IF Last(size) = "%"
    THEN IF ~IsDecimal(Front(size)) THEN { Outcome("ValueError", NoSize, running) }
         ELSE { Outcome("", NumSize(ps), Account(running, ps)) :
                  ps \in PercentSizes(W, BigToInt(ParseInt(Front(size)))) }
    ELSE LET h == human_to_bytes(size) IN
         IF h.err # "" THEN { Outcome(h.err, NoSize, running) }
         ELSE { Outcome("", TokSize(size), Account(running, BigToInt(h.val))) }

\* one iteration of "for partition in layout" up to the command += line
LayerOutcomes(partition, W, running) ==
    LET size == partition.size IN
    IF size = TrueSize
    THEN { Outcome("", IF ~efi THEN RemainderSize(running) ELSE NoSize, running) }
    ELSE IF size = <<>> THEN { Outcome("IndexError", NoSize, running) }
    ELSE IF Last(size) = "%"
    THEN IF ~IsDecimal(Front(size)) THEN { Outcome("ValueError", NoSize, running) }
         ELSE { Outcome("", NumSize(ps), Account(running, ps)) :
                  ps \in PercentSizes(W, BigToInt(ParseInt(Front(size)))) }
    ELSE LET h == human_to_bytes(size) IN
         IF h.err # "" THEN { Outcome(h.err, NoSize, running) }
         ELSE { Outcome("", TokSize(size), Account(running, BigToInt(h.val))) }

BiosBootType == IF impl = "drive" THEN "c" ELSE "21686148-6449-6E6F-744E-656564454649"


BiosBootLinesAlways == <<EntryLine(NoSize, BiosBootType)>>

BiosBootLines == IF ~efi THEN <<EntryLine(NoSize, BiosBootType)>> ELSE <<>>

----------------------------------------------------------------------------
(* format_drive is not running *)
NoDrive == [name |-> "", digitEnd |-> FALSE]

FormatIdle ==
    /\ fdrive = NoDrive /\ flayout = <<>> /\ table = <<>>
    /\ stack = <<>> /\ fcalls = <<>> /\ fpc = "idle" /\ ferr = ""
    /\ cmdFailed = FALSE

(* there is no second format_drive process *)
NoSession == [fdrive |-> NoDrive, flayout |-> <<>>, stack |-> <<>>, fcalls |-> <<>>,
              fpc |-> "idle", ferr |-> ""]

SessIdle == cur = 1 /\ parked = NoSession

(* main() is not running *)
Keys == <<"drive", "repository", "flavour", "release_branch", "filesystem", "username",
          "applications">>

NoConfig == [k \in 1..Len(Keys) |-> "missing"]

MainIdle ==
    /\ entry = "none" /\ interactive = FALSE /\ fileOk = TRUE /\ envOk = TRUE
    /\ config = NoConfig /\ mpc = "idle" /\ pstack = <<>>
    /\ answers = <<>> /\ events = <<>>

----------------------------------------------------------------------------
(* partition_drive, one action per executed statement group *)

\* partition_drive without its first statement
UmountOmitted ==
    /\ pc = "umount"
    /\ pc' = "vgs"
    /\ UNCHANGED <<pureVars, fmtVars, sessVars, mainVars, impl, efi, PRETEND, layout, lsblkOut, vgsOut, calls, vgs, vgIdx,
                   idx, drive_size, running_drive_size, command, err>>

Umount ==
    /\ pc = "umount"
    /\ calls' = Append(calls, Call("umount", "", <<>>, FALSE))
    /\ pc' = "vgs"
    /\ UNCHANGED <<pureVars, fmtVars, sessVars, mainVars, impl, efi, PRETEND, layout, lsblkOut, vgsOut, vgs, vgIdx,
                   idx, drive_size, running_drive_size, command, err>>

VgsQuery ==
    /\ pc = "vgs"
    /\ LET c == Call("vgs", "", <<>>, FALSE)
           out == IF c.ran THEN Some(vg_lines(vgsOut)) ELSE None
       IN  /\ calls' = Append(calls, c)
           /\ vgs' = out
           /\ pc' = IF ~out.isNone /\ out.list # <<>> THEN "vgchange" ELSE "size"
    /\ vgIdx' = 1
    /\ UNCHANGED <<pureVars, fmtVars, sessVars, mainVars, impl, efi, PRETEND, layout, lsblkOut, vgsOut,
                   idx, drive_size, running_drive_size, command, err>>

Vgchange ==
    /\ pc = "vgchange"
    /\ calls' = Append(calls, Call("vgchange", vgs.list[vgIdx], <<>>, FALSE))
    /\ vgIdx' = vgIdx + 1
    /\ pc' = IF vgIdx + 1 > Len(vgs.list) THEN "size" ELSE "vgchange"
    /\ UNCHANGED <<pureVars, fmtVars, sessVars, mainVars, impl, efi, PRETEND, layout, lsblkOut, vgsOut, vgs,
                   idx, drive_size, running_drive_size, command, err>>

GetDriveSize ==
    /\ pc = "size"
    /\ command' = <<LabelLine>>
    /\ calls' = Append(calls, Call("lsblk", "", <<>>, TRUE))
    /\ drive_size' = BigToInt(get_drive_size(lsblkOut))
    /\ running_drive_size' = InitialRunning(BigToInt(get_drive_size(lsblkOut)))
    /\ idx' = 1
    /\ pc' = "loop"
    /\ UNCHANGED <<pureVars, fmtVars, sessVars, mainVars, impl, efi, PRETEND, layout, lsblkOut, vgsOut, vgs, vgIdx, err>>

LoopStep ==
    /\ pc = "loop"
    /\ idx <= Len(layout)
    /\ \E o \in LayerOutcomes(layout[idx], drive_size, running_drive_size) :
          IF o.err # ""
          THEN /\ err' = o.err
               /\ pc' = "failed"
               /\ UNCHANGED <<idx, running_drive_size, command>>
          ELSE /\ command' = Append(command, EntryLine(o.size, layout[idx].type))
               /\ running_drive_size' = o.running
               /\ idx' = idx + 1
               /\ UNCHANGED <<pc, err>>
    /\ UNCHANGED <<pureVars, fmtVars, sessVars, mainVars, impl, efi, PRETEND, layout, lsblkOut, vgsOut, calls, vgs,
                   vgIdx, drive_size>>

WriteTable ==
    /\ pc = "loop"
    /\ idx > Len(layout)
    /\ command' = command \o BiosBootLines
    /\ calls' = Append(calls, Call("sfdisk", "", command \o BiosBootLines, FALSE))
    /\ pc' = IF impl = "drive" THEN "done" ELSE "sleep"
    /\ UNCHANGED <<pureVars, fmtVars, sessVars, mainVars, impl, efi, PRETEND, layout, lsblkOut, vgsOut, vgs, vgIdx,
                   idx, drive_size, running_drive_size, err>>

Sleep ==
    /\ pc = "sleep"
    /\ pc' = "partprobe"
    /\ UNCHANGED <<pureVars, fmtVars, sessVars, mainVars, impl, efi, PRETEND, layout, lsblkOut, vgsOut, calls, vgs,
                   vgIdx, idx, drive_size, running_drive_size, command, err>>

Partprobe ==
    /\ pc = "partprobe"
    /\ calls' = Append(calls, Call("partprobe", "", <<>>, FALSE))
    /\ pc' = "done"
    /\ UNCHANGED <<pureVars, fmtVars, sessVars, mainVars, impl, efi, PRETEND, layout, lsblkOut, vgsOut, vgs, vgIdx,
                   idx, drive_size, running_drive_size, command, err>>

Init ==
    /\ fn = "none" /\ arg = <<>> /\ ret = NoRet
    /\ impl \in {"drive", "installer"}
    /\ efi \in BOOLEAN
    /\ PRETEND \in BOOLEAN
    /\ layout \in Layouts
    /\ lsblkOut \in DriveSizes
    /\ vgsOut \in VgsOutputs
    /\ pc = "umount" /\ calls = <<>>
    /\ vgs = None /\ vgIdx = 1 /\ idx = 1
    /\ drive_size = 0 /\ running_drive_size = 0
    /\ command = <<>> /\ err = ""
    /\ FormatIdle /\ SessIdle /\ MainIdle

Next == \/ Umount \/ VgsQuery \/ Vgchange \/ GetDriveSize
        \/ LoopStep \/ WriteTable \/ Sleep \/ Partprobe

Spec == Init /\ [][Next]_vars

----------------------------------------------------------------------------
(* Harness for the pure functions: the input is drawn, the function applied *)
SampleN == {512, 1023, 1025, 65536, 1048577}

Tokens == { ToDecimal(n) \o <<u>> : n \in (0..MaxN) \cup SampleN, u \in Units }
          \cup { <<"1", "0", "X">>, <<"x", "M">>, <<"K">>, <<>> }

\* 1288490<n> for a four-digit n; 12884901888 is n = 1888
SizeNear(n) == <<"1", "2", "8", "8", "4", "9", "0">> \o ToDecimal(n)

LsblkOutputs == { SizeNear(n) : n \in (1888 - Span)..(1888 + Span) }
                \cup { <<>>, <<"0">>, <<"2", "7", "4", "8", "7", "7", "9", "0", "6", "9", "4", "4">> }

ApplyHumanToBytes ==
    /\ fn = "human_to_bytes" /\ ret = NoRet
    /\ ret' = human_to_bytes(arg)
    /\ UNCHANGED <<fn, arg, partVars, fmtVars, sessVars, mainVars>>

ApplyCheckDriveSize ==
    /\ fn = "check_drive_size" /\ ret = NoRet
    /\ ret' = Bool(check_drive_size(arg))
    /\ UNCHANGED <<fn, arg, partVars, fmtVars, sessVars, mainVars>>

InitPure ==
    /\ \/ fn = "human_to_bytes" /\ arg \in Tokens
       \/ fn = "check_drive_size" /\ arg \in LsblkOutputs
    /\ ret = NoRet
    /\ impl = "drive" /\ efi = TRUE /\ PRETEND = TRUE
    /\ layout = <<>> /\ lsblkOut = <<>> /\ vgsOut = <<>>
    /\ pc = "idle" /\ calls = <<>>
    /\ vgs = None /\ vgIdx = 1 /\ idx = 1
    /\ drive_size = 0 /\ running_drive_size = 0
    /\ command = <<>> /\ err = ""
    /\ FormatIdle /\ SessIdle /\ MainIdle

NextPure == ApplyHumanToBytes \/ ApplyCheckDriveSize

SpecPure == InitPure /\ [][NextPure]_vars

----------------------------------------------------------------------------
(* format_drive: layers, device names and paths.  A name or path is a       *)
(* sequence of chunks; every decimal digit is a chunk of its own.           *)
MaxFLayers == 2

FLayer(format, size, hasLabel, label) ==
    [format |-> format, size |-> size, hasLabel |-> hasLabel, label |-> label,
     hasSubvolumes |-> FALSE, subvolumes |-> <<>>,
     hasName |-> FALSE, name |-> "", hasLvs |-> FALSE, lvs |-> <<>>,
     hasInside |-> FALSE, inside |-> <<>>]

\* subvolume paths, one chunk per component
Home == <<"/home">>
Overlay == <<"/overlay">>
OverlayEtc == <<"/overlay", "/etc">>
OverlayVar == <<"/overlay", "/var">>
OverlayUsr == <<"/overlay", "/usr">>

SubvolLists == { sv \in [1..3 -> {Home, Overlay, OverlayEtc}] :
                   \A a, b \in 1..3 : a # b => sv[a] # sv[b] }

Efi == FLayer("vfat", <<"5", "1", "2", "M">>, TRUE, "EFI")
Roots == FLayer("ext4", <<"8", "G">>, TRUE, "ROOTS")
Btrfs(sv) == [FLayer("btrfs", TrueSize, TRUE, "ROOTS") EXCEPT
                 !.hasSubvolumes = TRUE, !.subvolumes = sv]

\* LAYOUTS["lvm"][1]
Lvm == [FLayer("lvm", TrueSize, FALSE, "") EXCEPT
           !.hasName = TRUE, !.name = "vg0",
           !.hasLvs = TRUE,
           !.lvs = << FLayer("ext4", <<"8", "G">>, TRUE, "ROOTS"),
                      FLayer("ext4", <<"3", "0", "%">>, TRUE, "OVERLAY"),
                      FLayer("ext4", TrueSize, TRUE, "HOME") >>]

\* LAYOUTS["btrfs_encryption_dev"][2]; inside is kept as the one-layer list
\* that line 211 makes of it
Luks == [FLayer("luks", TrueSize, TRUE, "XENIA") EXCEPT
            !.hasInside = TRUE,
            !.inside = << [FLayer("btrfs", TrueSize, FALSE, "") EXCEPT
                              !.hasSubvolumes = TRUE,
                              !.subvolumes = <<Home, Overlay, OverlayEtc,
                                               OverlayVar, OverlayUsr>>] >>]

FLayers == {Efi, Roots, Lvm, Luks} \cup { Btrfs(sv) : sv \in SubvolLists }

FLayouts == UNION { [1..n -> FLayers] : n \in 1..MaxFLayers }

\* layers that lack a key the code reads: "inside", "name", "lvs"
LuksNoInside == [Luks EXCEPT !.hasInside = FALSE, !.inside = <<>>]
LvmNoName == [Lvm EXCEPT !.hasName = FALSE, !.name = ""]
LvmNoLvs == [Lvm EXCEPT !.hasLvs = FALSE, !.lvs = <<>>]

BadLayers == {LuksNoInside, LvmNoName, LvmNoLvs}

BadLayouts == { <<b>> : b \in BadLayers } \cup { <<Efi, b>> : b \in BadLayers }

\* layouts of ten and more sibling layers
MaxSiblings == 11

LongLayouts == { [k \in 1..n |-> Roots] : n \in 10..MaxSiblings }

BaseDevices == { [name |-> "sda", digitEnd |-> FALSE],
                 [name |-> "nvme0n1", digitEnd |-> TRUE] }

DrivePath(d) == <<"/dev/", d.name>>

\* the kernel's name of partition k of the device d
PartNode(d, k) == (IF d.digitEnd THEN <<d.name, "p">> ELSE <<d.name>>) \o ToDecimal(k)

\* lsblk -o NAME --list: the disk, then its n partitions
PartTable(d, n) == <<<<d.name>>>> \o [k \in 1..n |-> PartNode(d, k)]

\* drive.split('/')[-1]
Basename(path) == Tail(path)

\* grep '<base>.': the name continues after base
Matches(base, nm) == Len(nm) > Len(base) /\ SubSeq(nm, 1, Len(base)) = base

\* lsblk -o NAME --list | grep -m 1 '<base>.', stripped: the first match or ""
FirstMatch(base) ==
    IF \E k \in 1..Len(table) : Matches(base, table[k])
    THEN table[CHOOSE k \in 1..Len(table) :
                   Matches(base, table[k]) /\ \A m \in 1..(k - 1) : ~Matches(base, table[m])]
    ELSE <<>>

\* name.replace("-", "/")
ReplaceDash(nm) == [k \in 1..Len(nm) |-> IF nm[k] = "-" THEN "/" ELSE nm[k]]

Frame(drive, lay) ==
    [drive |-> drive, layout |-> lay, name |-> <<>>, noNum |-> FALSE, number |-> 0,
     i |-> 1, j |-> 1, step |-> "lookup"]

Top == stack[Len(stack)]

SetTop(f) == [stack EXCEPT ![Len(stack)] = f]

\* the layer the top frame is working on and its device node
Partition == Top.layout[Top.i]

\* no layer: the lookup of a call belongs to none
NoLayer == FLayer("", <<>>, FALSE, "")

\* common.execute from format_drive: tool, device node, option, value, lv name;
\* depth, layer and part record the call, the loop index and the layer at work
FCall(tool, node, flag, val, lv, override, st) ==
    [tool |-> tool, node |-> node, flag |-> flag, val |-> val, lv |-> lv,
     ran |-> (~PRETEND) \/ override, status |-> st,
     depth |-> Len(stack), layer |-> Top.i,
     part |-> IF Top.step = "lookup" THEN NoLayer ELSE Partition]

\* exit status of a command: commands that are only printed have none, and
\* at most one command of a run fails
ExitCodes == IF PRETEND \/ cmdFailed THEN {0} ELSE {0, 1}

Issue(tool, node, flag, val, lv, st) ==
    /\ fcalls' = Append(fcalls, FCall(tool, node, flag, val, lv, FALSE, st))
    /\ cmdFailed' = (cmdFailed \/ st # 0)

\* "-n <label>" / "-L <label>" when the layer has a label
LabelFlag(p, flag) == IF p.hasLabel THEN flag ELSE ""
LabelVal(p) == IF p.hasLabel THEN <<p.label>> ELSE <<>>

MkfsTool == "vfat" :> "mkfs.vfat" @@ "ext4" :> "mkfs.ext4" @@ "btrfs" :> "mkfs.btrfs" @@
            "lvm" :> "pvcreate" @@ "luks" :> "luksFormat"

MkfsLabelFlag == "vfat" :> "-n" @@ "ext4" :> "-L" @@ "btrfs" :> "-L" @@
                 "lvm" :> "" @@ "luks" :> ""

AfterCreateNoMount(p) ==
    CASE p.format = "btrfs" /\ p.hasSubvolumes -> "subvol"
      [] p.format = "lvm" -> "vgcreate"
      [] p.format = "luks" -> "config"
      [] OTHER -> "next"

\* the step after the first command of a layer
AfterCreate(p) ==
    CASE p.format = "btrfs" /\ p.hasSubvolumes -> "mount"
      [] p.format = "lvm" -> "vgcreate"
      [] p.format = "luks" -> "config"
      [] OTHER -> "next"

AdvanceSkipsSibling(f) == [f EXCEPT !.i = f.i + 2, !.j = 1, !.step = "layer"]

\* the frame moves on to its next layer
Advance(f) == [f EXCEPT !.i = f.i + 1, !.j = 1, !.step = "layer"]

LvFlagExtents(lv) == "-l"

\* lvcreate options for one logical volume
LvFlag(lv) == IF lv.size = TrueSize \/ Last(lv.size) = "%" THEN "-l" ELSE "-L"

LvSize(lv) == IF lv.size = TrueSize THEN <<"1", "0", "0", "%", "FREE">>
              ELSE IF Last(lv.size) = "%" THEN lv.size \o <<"FREE">>
              ELSE lv.size

LvName(n) == <<"lv">> \o ToDecimal(n)

MappingName == "xenia"

----------------------------------------------------------------------------
(* format_drive, one action per executed command *)
fmtRest == <<pureVars, partVars, sessVars, mainVars>>

\* lines 131-145: find the first node of the drive
Lookup ==
    /\ fpc = "run" /\ Top.step = "lookup"
    /\ fcalls' = Append(fcalls, FCall("lsblk", Top.drive, "", Basename(Top.drive), <<>>, TRUE, 0))
    /\ LET out == FirstMatch(Basename(Top.drive))
           nm == ReplaceDash(<<"/dev/">> \o out)
       IN  IF out = <<>>
           THEN /\ stack' = SetTop([Top EXCEPT !.name = Top.drive, !.noNum = TRUE,
                                               !.step = "layer"])
                /\ UNCHANGED <<fpc, ferr>>
           ELSE IF Last(nm) \notin Digits
           THEN /\ fpc' = "failed" /\ ferr' = "ValueError"
                /\ UNCHANGED stack
           ELSE /\ stack' = SetTop([Top EXCEPT !.name = nm, !.number = DigitVal[Last(nm)],
                                               !.step = "layer"])
                /\ UNCHANGED <<fpc, ferr>>
    /\ UNCHANGED <<fmtRest, fdrive, flayout, table, cmdFailed>>

\* lines 147-169, 183, 203: name the node and create the filesystem or container
FormatLayer ==
    /\ fpc = "run" /\ Top.step = "layer" /\ Top.i <= Len(Top.layout)
    /\ LET p == Partition
           nm == IF Top.noNum THEN Top.name ELSE Front(Top.name) \o ToDecimal(Top.number)
           num == IF Top.noNum THEN Top.number ELSE Top.number + 1
           f == [Top EXCEPT !.name = nm, !.number = num]
       IN  \E st \in ExitCodes :
             /\ Issue(MkfsTool[p.format], nm, LabelFlag(p, MkfsLabelFlag[p.format]),
                      IF MkfsLabelFlag[p.format] = "" THEN <<>> ELSE LabelVal(p), <<>>, st)
             /\ stack' = SetTop(IF AfterCreate(p) = "next" THEN Advance(f)
                                ELSE [f EXCEPT !.step = AfterCreate(p), !.j = 1])
    /\ UNCHANGED <<fmtRest, fdrive, flayout, table, fpc, ferr>>

\* lines 172-175
Mount ==
    /\ fpc = "run" /\ Top.step = "mount"
    /\ \E st \in ExitCodes : Issue("mount", Top.name, "", <<"/mnt/temp">>, <<>>, st)
    /\ stack' = SetTop([Top EXCEPT !.j = 1,
                          !.step = IF Partition.subvolumes = <<>> THEN "umount" ELSE "subvol"])
    /\ UNCHANGED <<fmtRest, fdrive, flayout, table, fpc, ferr>>

\* lines 177-178
SubvolumeCreate ==
    /\ fpc = "run" /\ Top.step = "subvol"
    /\ \E st \in ExitCodes :
          Issue("subvolume", Top.name, "create",
                <<"/mnt/temp">> \o Partition.subvolumes[Top.j], <<>>, st)
    /\ stack' = SetTop([Top EXCEPT !.j = Top.j + 1,
                          !.step = IF Top.j + 1 > Len(Partition.subvolumes)
                                   THEN "umount" ELSE "subvol"])
    /\ UNCHANGED <<fmtRest, fdrive, flayout, table, fpc, ferr>>

\* line 180
UmountScratch ==
    /\ fpc = "run" /\ Top.step = "umount"
    /\ \E st \in ExitCodes : Issue("umount", Top.name, "", <<>>, <<>>, st)
    /\ stack' = SetTop(Advance(Top))
    /\ UNCHANGED <<fmtRest, fdrive, flayout, table, fpc, ferr>>

VgcreateSkipsVolumes ==
    /\ fpc = "run" /\ Top.step = "vgcreate"
    /\ \E st \in ExitCodes : Issue("vgcreate", Top.name, "", <<Partition.name>>, <<>>, st)
    /\ stack' = SetTop([Top EXCEPT !.j = 1, !.step = "recurse"])
    /\ UNCHANGED <<fmtRest, fdrive, flayout, table, fpc, ferr>>

\* lines 184-186: partition['name'] and partition["lvs"] raise KeyError when
\* the layer has no such key
Vgcreate ==
    /\ fpc = "run" /\ Top.step = "vgcreate"
    /\ IF ~Partition.hasName
       THEN /\ fpc' = "failed" /\ ferr' = "KeyError"
            /\ UNCHANGED <<stack, fcalls, cmdFailed>>
       ELSE /\ \E st \in ExitCodes :
                  Issue("vgcreate", Top.name, "", <<Partition.name>>, <<>>, st)
            /\ IF ~Partition.hasLvs
               THEN /\ fpc' = "failed" /\ ferr' = "KeyError"
                    /\ UNCHANGED stack
               ELSE /\ stack' = SetTop([Top EXCEPT !.j = 1,
                                          !.step = IF Partition.lvs = <<>> THEN "recurse"
                                                   ELSE "lvcreate"])
                    /\ UNCHANGED <<fpc, ferr>>
    /\ UNCHANGED <<fmtRest, fdrive, flayout, table>>

\* lines 186-198; a logical volume that was created shows up in lsblk
Lvcreate ==
    /\ fpc = "run" /\ Top.step = "lvcreate"
    /\ LET lv == Partition.lvs[Top.j] IN
       \E st \in ExitCodes :
          /\ Issue("lvcreate", <<Partition.name>>, LvFlag(lv), LvSize(lv), LvName(Top.j - 1), st)
          /\ table' = IF ~PRETEND /\ st = 0
                      THEN Append(table, <<Partition.name, "-">> \o LvName(Top.j - 1))
                      ELSE table
    /\ stack' = SetTop([Top EXCEPT !.j = Top.j + 1,
                          !.step = IF Top.j + 1 > Len(Partition.lvs)
                                   THEN "recurse" ELSE "lvcreate"])
    /\ UNCHANGED <<fmtRest, fdrive, flayout, fpc, ferr>>

\* lines 204-206
LuksConfig ==
    /\ fpc = "run" /\ Top.step = "config"
    /\ IF ~Partition.hasLabel
       THEN /\ fpc' = "failed" /\ ferr' = "KeyError"
            /\ UNCHANGED <<stack, fcalls, cmdFailed>>
       ELSE /\ \E st \in ExitCodes :
                  Issue("config", Top.name, "--label", <<Partition.label>>, <<>>, st)
            /\ stack' = SetTop([Top EXCEPT !.step = "open"])
            /\ UNCHANGED <<fpc, ferr>>
    /\ UNCHANGED <<fmtRest, fdrive, flayout, table>>

\* lines 207-209; an opened container shows up in lsblk under the mapping name
LuksOpen ==
    /\ fpc = "run" /\ Top.step = "open"
    /\ \E st \in ExitCodes :
          /\ Issue("luksOpen", <<"/dev/disk/by-label/", Partition.label>>, "",
                   <<MappingName>>, <<>>, st)
          /\ table' = IF ~PRETEND /\ st = 0 THEN Append(table, <<MappingName>>) ELSE table
    /\ stack' = SetTop([Top EXCEPT !.step = "recurse"])
    /\ UNCHANGED <<fmtRest, fdrive, flayout, fpc, ferr>>

RecurseOnContainer ==
    /\ fpc = "run" /\ Top.step = "recurse"
    /\ stack' = Append(SetTop([Top EXCEPT !.step = "inner"]),
                       IF Partition.format = "lvm"
                       THEN Frame(<<"/dev/mapper/", Partition.name, "-">>, Partition.lvs)
                       ELSE Frame(Top.name, Partition.inside))
    /\ UNCHANGED <<fmtRest, fdrive, flayout, table, fcalls, fpc, ferr, cmdFailed>>

\* lines 200 and 211: the recursive call; partition["inside"] raises KeyError
\* when the layer has no such key
Recurse ==
    /\ fpc = "run" /\ Top.step = "recurse"
    /\ IF Partition.format = "luks" /\ ~Partition.hasInside
       THEN /\ fpc' = "failed" /\ ferr' = "KeyError"
            /\ UNCHANGED stack
       ELSE /\ stack' = Append(SetTop([Top EXCEPT !.step = "inner"]),
                          IF Partition.format = "lvm"
                          THEN Frame(<<"/dev/mapper/", Partition.name, "-">>, Partition.lvs)
                          ELSE Frame(<<"/dev/mapper/", MappingName>>, Partition.inside))
            /\ UNCHANGED <<fpc, ferr>>
    /\ UNCHANGED <<fmtRest, fdrive, flayout, table, fcalls, cmdFailed>>

\* the for loop of a call is exhausted: the call returns
Return ==
    /\ fpc = "run" /\ Top.step = "layer" /\ Top.i > Len(Top.layout)
    /\ IF Len(stack) = 1
       THEN /\ stack' = <<>>
            /\ fpc' = "done"
       ELSE /\ stack' = [Front(stack) EXCEPT ![Len(stack) - 1] = Advance(stack[Len(stack) - 1])]
            /\ UNCHANGED fpc
    /\ UNCHANGED <<fmtRest, fdrive, flayout, table, fcalls, ferr, cmdFailed>>

\* format_drive(drive, layout) after partitioning: the kernel has registered
\* the new partition nodes, or not yet
InitFormat ==
    /\ fn = "none" /\ arg = <<>> /\ ret = NoRet
    /\ impl = "drive" /\ efi = TRUE
    /\ PRETEND \in BOOLEAN
    /\ layout = <<>> /\ lsblkOut = <<>> /\ vgsOut = <<>>
    /\ pc = "idle" /\ calls = <<>>
    /\ vgs = None /\ vgIdx = 1 /\ idx = 1
    /\ drive_size = 0 /\ running_drive_size = 0
    /\ command = <<>> /\ err = ""
    /\ fdrive \in BaseDevices
    /\ flayout \in FLayouts \cup BadLayouts \cup LongLayouts
    /\ table \in { PartTable(fdrive, 0), PartTable(fdrive, Len(flayout)) }
    /\ stack = <<Frame(DrivePath(fdrive), flayout)>>
    /\ fcalls = <<>> /\ fpc = "run" /\ ferr = ""
    /\ cmdFailed = FALSE
    /\ SessIdle /\ MainIdle

NextFormat == \/ Lookup \/ FormatLayer \/ Mount \/ SubvolumeCreate \/ UmountScratch
              \/ Vgcreate \/ Lvcreate \/ LuksConfig \/ LuksOpen \/ Recurse \/ Return

SpecFormat == InitFormat /\ [][NextFormat]_vars

----------------------------------------------------------------------------
(* partition_drive followed by format_drive on the same drive and catalog   *)
(* layout, as main() of legacy_installer.py calls them.  The partition      *)
(* sizes are scaled down to the device sizes of the model.                  *)
Install(p, f) == [p |-> p, f |-> f]

Installs ==
    { Install(<<Layer(<<"5", "1", "2", "K">>, "uefi"), Layer(TrueSize, "linux")>>,
              <<Efi, Btrfs(<<Home, Overlay, OverlayEtc>>)>>),
      Install(<<Layer(<<"5", "1", "2", "K">>, "uefi"), Layer(TrueSize, "lvm")>>,
              <<Efi, Lvm>>),
      Install(<<Layer(<<"5", "1", "2", "K">>, "uefi"), Layer(<<"7", "6", "8", "K">>, "linux"),
                Layer(TrueSize, "linux")>>,
              <<Efi, Roots, Luks>>) }

\* partition_drive has returned and format_drive is called; the device table
\* lists the partition nodes or does not
StartFormat ==
    /\ pc = "done" /\ fpc = "idle"
    /\ table' \in { PartTable(fdrive, 0), PartTable(fdrive, Len(flayout)) }
    /\ stack' = <<Frame(DrivePath(fdrive), flayout)>>
    /\ fpc' = "run"
    /\ UNCHANGED <<fmtRest, fdrive, flayout, fcalls, ferr, cmdFailed>>

InitInstall ==
    /\ fn = "none" /\ arg = <<>> /\ ret = NoRet
    /\ impl \in {"drive", "installer"}
    /\ efi \in BOOLEAN
    /\ PRETEND \in BOOLEAN
    /\ \E ins \in Installs : layout = ins.p /\ flayout = ins.f
    /\ lsblkOut \in DriveSizes
    /\ vgsOut \in VgsOutputs
    /\ pc = "umount" /\ calls = <<>>
    /\ vgs = None /\ vgIdx = 1 /\ idx = 1
    /\ drive_size = 0 /\ running_drive_size = 0
    /\ command = <<>> /\ err = ""
    /\ fdrive \in BaseDevices
    /\ table = <<>> /\ stack = <<>> /\ fcalls = <<>>
    /\ fpc = "idle" /\ ferr = "" /\ cmdFailed = FALSE
    /\ SessIdle /\ MainIdle

NextInstall == Next \/ StartFormat \/ NextFormat

SpecInstall == InitInstall /\ [][NextInstall]_vars

----------------------------------------------------------------------------
(* Two format_drive processes on two devices.  The variables of format_drive *)
(* hold the state of the process that is running, parked the state of the    *)
(* other one; the device table and PRETEND are common to both.               *)
Session(d, lay, st, log, p, e) ==
    [fdrive |-> d, flayout |-> lay, stack |-> st, fcalls |-> log, fpc |-> p, ferr |-> e]

TwoLayouts == { <<Btrfs(<<Home, Overlay, OverlayEtc>>)>>, <<Lvm>>, <<Luks>> }

FirstDevice == [name |-> "sda", digitEnd |-> FALSE]
SecondDevice == [name |-> "nvme0n1", digitEnd |-> TRUE]

\* the scheduler runs the other process
Switch ==
    /\ parked.fpc = "run"
    /\ fpc \in {"run", "done", "failed"}
    /\ fdrive' = parked.fdrive /\ flayout' = parked.flayout
    /\ stack' = parked.stack /\ fcalls' = parked.fcalls
    /\ fpc' = parked.fpc /\ ferr' = parked.ferr
    /\ parked' = Session(fdrive, flayout, stack, fcalls, fpc, ferr)
    /\ cur' = 3 - cur
    /\ UNCHANGED <<pureVars, partVars, mainVars, table, cmdFailed>>

InitTwo ==
    /\ fn = "none" /\ arg = <<>> /\ ret = NoRet
    /\ impl = "drive" /\ efi = TRUE
    /\ PRETEND \in BOOLEAN
    /\ layout = <<>> /\ lsblkOut = <<>> /\ vgsOut = <<>>
    /\ pc = "idle" /\ calls = <<>>
    /\ vgs = None /\ vgIdx = 1 /\ idx = 1
    /\ drive_size = 0 /\ running_drive_size = 0
    /\ command = <<>> /\ err = ""
    /\ fdrive = FirstDevice
    /\ flayout \in TwoLayouts
    /\ table = PartTable(FirstDevice, 1) \o PartTable(SecondDevice, 1)
    /\ stack = <<Frame(DrivePath(fdrive), flayout)>>
    /\ fcalls = <<>> /\ fpc = "run" /\ ferr = ""
    /\ cmdFailed = FALSE
    /\ cur = 1
    /\ \E lay \in TwoLayouts :
          parked = Session(SecondDevice, lay, <<Frame(DrivePath(SecondDevice), lay)>>,
                           <<>>, "run", "")
    /\ MainIdle

NextTwo == NextFormat \/ Switch

SpecTwo == InitTwo /\ [][NextTwo]_vars

----------------------------------------------------------------------------
(* main() of legacy_installer.py and of main.py, with parse_config and       *)
(* fix_config.  A configuration value is missing, bad, good, or the default  *)
(* that fix_config offers.                                                   *)
MaxPrompts == 8

NKeys == Len(Keys)

FileValues == {"missing", "bad", "good"}
Answers == {"default", "good", "bad"}

\* the default of VALIDITY[key] passes the key's check: "" is no drive,
\* "btrfs" is a catalog layout, "" is an accepted username; the others are
\* looked up in the repository manifest and in system.toml
DefaultValid(k) ==
    \/ Keys[k] \in {"filesystem", "username"}
    \/ Keys[k] # "drive" /\ envOk

\* key in config_file and the value passes the check of VALIDITY[key]
Valid(k) == \/ config[k] = "good"
            \/ config[k] = "default" /\ DefaultValid(k)

Event(e) == events' = Append(events, e)

\* common.die: message and exit(1)
Die ==
    /\ Event("die")
    /\ mpc' = "exit"
    /\ pstack' = <<>>

mainRest == <<pureVars, partVars, fmtVars, sessVars>>

\* legacy_installer.py lines 520-526
MainStart ==
    /\ entry = "legacy" /\ mpc = "start"
    /\ mpc' = IF interactive THEN "parse" ELSE "file"
    /\ UNCHANGED <<mainRest, entry, interactive, fileOk, envOk, config, pstack, answers, events>>

\* lines 528-532
FileCheck ==
    /\ mpc = "file"
    /\ IF ~fileOk THEN Die
       ELSE mpc' = "parse" /\ UNCHANGED <<pstack, events>>
    /\ UNCHANGED <<mainRest, entry, interactive, fileOk, envOk, config, answers>>

\* lines 540-542: parse_config is called
ParseConfig ==
    /\ entry = "legacy" /\ mpc = "parse"
    /\ Event("parse_config")
    /\ pstack' = <<1>>
    /\ mpc' = "parsing"
    /\ UNCHANGED <<mainRest, entry, interactive, fileOk, envOk, config, answers>>

\* parse_config: the key at hand is valid, the loop goes on
CheckKey ==
    /\ mpc = "parsing" /\ pstack # <<>>
    /\ Last(pstack) <= NKeys
    /\ Valid(Last(pstack))
    /\ pstack' = [pstack EXCEPT ![Len(pstack)] = @ + 1]
    /\ UNCHANGED <<mainRest, entry, interactive, fileOk, envOk, config, mpc, answers, events>>

FixConfigSkips ==
    /\ mpc = "parsing" /\ pstack # <<>>
    /\ Last(pstack) <= NKeys
    /\ ~Valid(Last(pstack))
    /\ IF ~interactive
       THEN /\ pstack' = [pstack EXCEPT ![Len(pstack)] = @ + 1]
            /\ UNCHANGED <<config, answers, mpc, events>>
       ELSE /\ Len(answers) < MaxPrompts
            /\ \E a \in Answers :
                  /\ config' = [config EXCEPT ![Last(pstack)] = a]
                  /\ answers' = Append(answers, [key |-> Last(pstack), ans |-> a])
            /\ pstack' = Append(pstack, 1)
            /\ UNCHANGED <<mpc, events>>
    /\ UNCHANGED <<mainRest, entry, interactive, fileOk, envOk>>

\* parse_config: the key at hand is missing or not valid, fix_config is
\* called: it dies in non-interactive mode, else it stores the answer (the
\* default for an empty one) and parses the configuration again
FixConfig ==
    /\ mpc = "parsing" /\ pstack # <<>>
    /\ Last(pstack) <= NKeys
    /\ ~Valid(Last(pstack))
    /\ IF ~interactive
       THEN /\ Die
            /\ UNCHANGED <<config, answers>>
       ELSE /\ Len(answers) < MaxPrompts
            /\ \E a \in Answers :
                  /\ config' = [config EXCEPT ![Last(pstack)] = a]
                  /\ answers' = Append(answers, [key |-> Last(pstack), ans |-> a])
            /\ pstack' = Append(pstack, 1)
            /\ UNCHANGED <<mpc, events>>
    /\ UNCHANGED <<mainRest, entry, interactive, fileOk, envOk>>

\* parse_config returns: to the fix_config that called it, whose caller goes
\* on with its next key, or to main()
ReturnConfig ==
    /\ mpc = "parsing" /\ pstack # <<>>
    /\ Last(pstack) > NKeys
    /\ IF Len(pstack) = 1
       THEN /\ pstack' = <<>>
            /\ mpc' = "confirm"
       ELSE /\ pstack' = [Front(pstack) EXCEPT ![Len(pstack) - 1] = @ + 1]
            /\ UNCHANGED mpc
    /\ UNCHANGED <<mainRest, entry, interactive, fileOk, envOk, config, answers, events>>

\* lines 546-550: the warning and input("") in interactive mode only
Confirm ==
    /\ mpc = "confirm"
    /\ IF interactive THEN Event("confirm") ELSE UNCHANGED events
    /\ mpc' = "partition"
    /\ UNCHANGED <<mainRest, entry, interactive, fileOk, envOk, config, pstack, answers>>

\* lines 552-555
CallPartition ==
    /\ mpc = "partition"
    /\ Event("partition_drive")
    /\ mpc' = "format"
    /\ UNCHANGED <<mainRest, entry, interactive, fileOk, envOk, config, pstack, answers>>

\* lines 557-560
CallFormat ==
    /\ mpc = "format"
    /\ Event("format_drive")
    /\ mpc' = "install"
    /\ UNCHANGED <<mainRest, entry, interactive, fileOk, envOk, config, pstack, answers>>

\* main.py lines 219-220
MainUefiCheck ==
    /\ entry = "main.py" /\ mpc = "start"
    /\ IF ~efi THEN Die
       ELSE mpc' = "args" /\ UNCHANGED <<pstack, events>>
    /\ UNCHANGED <<mainRest, entry, interactive, fileOk, envOk, config, answers>>

\* main.py lines 222-228: its own parse_config returns or dies
MainParseConfig ==
    /\ entry = "main.py" /\ mpc = "args"
    /\ \/ /\ events' = events \o <<"parse_config">>
          /\ mpc' = "mount"
       \/ /\ events' = events \o <<"parse_config", "die">>
          /\ mpc' = "exit"
    /\ UNCHANGED <<mainRest, entry, interactive, fileOk, envOk, config, pstack, answers>>

\* main.py line 232: mount is not defined in main.py
MainMount ==
    /\ entry = "main.py" /\ mpc = "mount"
    /\ Event("NameError")
    /\ mpc' = "exit"
    /\ UNCHANGED <<mainRest, entry, interactive, fileOk, envOk, config, pstack, answers>>

InitMain ==
    /\ fn = "none" /\ arg = <<>> /\ ret = NoRet
    /\ impl = "installer" /\ efi \in BOOLEAN /\ PRETEND = FALSE
    /\ layout = <<>> /\ lsblkOut = <<>> /\ vgsOut = <<>>
    /\ pc = "idle" /\ calls = <<>>
    /\ vgs = None /\ vgIdx = 1 /\ idx = 1
    /\ drive_size = 0 /\ running_drive_size = 0
    /\ command = <<>> /\ err = ""
    /\ FormatIdle /\ SessIdle
    /\ envOk \in BOOLEAN
    /\ \/ /\ entry = "legacy" /\ interactive = TRUE
          /\ fileOk = TRUE /\ config = NoConfig
       \/ /\ entry = "legacy" /\ interactive = FALSE
          /\ fileOk \in BOOLEAN /\ config \in [1..NKeys -> FileValues]
       \/ /\ entry = "main.py" /\ interactive = FALSE
          /\ fileOk = TRUE /\ config = NoConfig
    /\ mpc = "start" /\ pstack = <<>> /\ answers = <<>> /\ events = <<>>

NextMain == \/ MainStart \/ FileCheck \/ ParseConfig \/ CheckKey \/ FixConfig
            \/ ReturnConfig \/ Confirm \/ CallPartition \/ CallFormat
            \/ MainUefiCheck \/ MainParseConfig \/ MainMount

SpecMain == InitMain /\ [][NextMain]_vars

----------------------------------------------------------------------------
(* Properties *)
RECURSIVE Zeros(_)
Zeros(k) == IF k = 0 THEN <<>> ELSE <<0>> \o Zeros(k - 1)

\* b * 1024^k
Shift(b, k) == IF b = <<>> THEN <<>> ELSE Zeros(k) \o b

UnitExp == "B" :> 0 @@ "K" :> 1 @@ "M" :> 2 @@ "G" :> 3 @@ "T" :> 4 @@ "P" :> 5

CallsOf(tool) == { i \in 1..Len(calls) : calls[i].tool = tool }

IsPercent(size, p) == size = ToDecimal(p) \o <<"%">>

\* the bytes a size=<token> or size=<number> entry stands for
EntryBytes(e) == IF e.size.kind = "tok" THEN BigToInt(human_to_bytes(e.size.tok).val)
                 ELSE e.size.num

RECURSIVE SumBytes(_)
SumBytes(lines) == IF lines = <<>> THEN 0
                   ELSE EntryBytes(Last(lines)) + SumBytes(Front(lines))

\* the entry e is size=<x>K with x KiB = T bytes
KEquals(e, T) ==
    /\ e.size.kind = "K"
    /\ IF e.size.den = 1 THEN T % 1024 = 0 /\ e.size.num = T \div 1024
       ELSE e.size.num = T

\* C1: for every token <N><U>, N a decimal natural and U in {B,K,M,G,T,P},
\* human_to_bytes returns N * 1024^k, k = 0..5 for B,K,M,G,T,P.
C1_HumanToBytes ==
    (fn = "human_to_bytes" /\ ret # NoRet) =>
        \A n \in (0..MaxN) \cup SampleN, u \in Units :
            arg = ToDecimal(n) \o <<u>> => ret = Value(Shift(BigFromNat(n), UnitExp[u]))

W_C1 == /\ fn = "human_to_bytes"
        /\ arg = <<"2", "4", "P">>
        /\ ret = Value(<<0, 0, 0, 0, 0, 24>>)

\* C2: check_drive_size accepts a device of exactly 12884901888 bytes and
\* rejects a device of 12884901887 bytes.
C2_BoundaryAccepted ==
    (fn = "check_drive_size" /\ ret # NoRet) =>
        /\ arg = SizeNear(1888) => ret.bool
        /\ arg = SizeNear(1887) => ~ret.bool

\* C3: with a malformed size token in the layout partition_drive fails, and no
\* external command (umount, vgchange, sfdisk) has been run when it fails.
Malformed(size) ==
    /\ size # TrueSize
    /\ ~(size # <<>> /\ IsDecimal(Front(size)) /\ Last(size) \in Units \cup {"%"})

C3_RejectedBeforeAnyCommand ==
    /\ (\E i \in 1..Len(layout) : Malformed(layout[i].size)) => CallsOf("sfdisk") = {}
    /\ pc = "failed" =>
          \A i \in 1..Len(calls) :
              calls[i].ran => calls[i].tool \notin {"umount", "vgchange", "sfdisk"}

\* C4: the size emitted for a top-level layer of size p% is W * p / 100 rounded
\* to the nearest integer, W the whole-device size, whatever the preceding
\* siblings have consumed.
C4_PercentOfWholeDevice ==
    pc \in {"loop", "sleep", "partprobe", "done"} =>
        \A i \in 1..Len(layout), p \in 0..100 :
            (i + 1 <= Len(command) /\ IsPercent(layout[i].size, p)) =>
                /\ command[i + 1].size.kind = "num"
                /\ 100 * command[i + 1].size.num - drive_size * p \in (0 - 50)..50

W_C4 == /\ pc = "done"
        /\ Len(layout) >= 2
        /\ layout[1].size = <<"7", "6", "8", "K">>
        /\ IsPercent(layout[2].size, 30)
        /\ drive_size = 2097152
        /\ command[3].size = NumSize(629146)

\* C5: on legacy BIOS, for a layout with one remainder layer in last position,
\* the size drive.partition_drive emits for the remainder plus the sizes of the
\* preceding siblings equals W minus the 1 MiB BIOS-boot reservation.
C5_RemainderCompletesDevice ==
    ( /\ impl = "drive" /\ ~efi /\ pc = "done"
      /\ layout # <<>>
      /\ Last(layout).size = TrueSize
      /\ \A i \in 1..(Len(layout) - 1) : layout[i].size # TrueSize ) =>
        KEquals(command[Len(layout) + 1],
                drive_size - BiosReserve - SumBytes(SubSeq(command, 2, Len(layout))))

\* C6: partition_drive never emits a negative size, and when the absolute plus
\* percentage allocations exceed the device size it reports an error instead
\* of writing the partition table.
C6_NoNegativeSize ==
    /\ \A i \in 1..Len(command) : command[i].size.num >= 0
    /\ CallsOf("sfdisk") # {} =>
          SumBytes(SelectSeq(command, LAMBDA l : l.size.kind \in {"tok", "num"})) <= drive_size

\* C7: the first command issued is the force-unmount, every vgchange comes
\* after it, and sfdisk comes after the unmount and after all deactivations.
C7_UnmountThenDeactivateThenWrite ==
    /\ calls # <<>> => calls[1].tool = "umount"
    /\ \A i \in CallsOf("vgchange") : \E j \in CallsOf("umount") : j < i
    /\ \A i \in CallsOf("sfdisk") :
          /\ \E j \in CallsOf("umount") : j < i
          /\ \A j \in CallsOf("umount") \cup CallsOf("vgchange") : j < i
          /\ Cardinality(CallsOf("vgchange")) = Len(vgs.list)

W_C7 == /\ pc = "done" /\ ~PRETEND
        /\ Len(calls) >= 6
        /\ calls[1].tool = "umount"
        /\ calls[3].tool = "vgchange"
        /\ calls[6].tool = "sfdisk"

\* C8: a call of partition_drive issues one sfdisk invocation, never more; its
\* script starts with the GPT label line, followed by one entry per top-level
\* layer in layout order, each with that layer's partition type.
C8_OneTableInLayoutOrder ==
    /\ Cardinality(CallsOf("sfdisk")) <= 1
    /\ pc = "done" => Cardinality(CallsOf("sfdisk")) = 1
    /\ \A i \in CallsOf("sfdisk") :
          LET script == calls[i].script IN
          /\ Len(script) >= Len(layout) + 1
          /\ script[1] = LabelLine
          /\ \A k \in 1..Len(layout) :
                script[k + 1].text = "entry" /\ script[k + 1].type = layout[k].type

W_C8 == /\ pc = "done"
        /\ Len(layout) = 3
        /\ layout[1].type = "uefi" /\ layout[2].type = "linux"
        /\ \E i \in CallsOf("sfdisk") : calls[i].script[2].type = "uefi"

\* C9: exactly one vgchange -an is issued for every volume group the vgs query
\* reports, and with an empty report none is issued and the run still goes on
\* to the partition-table write.
Reported(vg) == ~PRETEND /\ \E k \in 1..Len(vgsOut) : vgsOut[k] = vg

C9_DeactivateEveryGroup ==
    /\ CallsOf("sfdisk") # {} =>
          \A n \in 1..Len(VgNames) :
              Cardinality({ i \in CallsOf("vgchange") : calls[i].arg = VgNames[n] })
                  = IF Reported(VgNames[n]) THEN 1 ELSE 0
    /\ \A i \in CallsOf("vgchange") : Reported(calls[i].arg)
    /\ (vgsOut = <<>> /\ Len(calls) >= 2) =>
          /\ CallsOf("vgchange") = {}
          /\ pc \in {"size", "loop", "sleep", "partprobe", "done", "failed"}
          /\ pc = "failed" => (idx \in 1..Len(layout) /\ Malformed(layout[idx].size))

W_C9 == /\ pc = "done"
        /\ Len(calls) >= 6
        /\ calls[3].tool = "vgchange" /\ calls[3].arg = "vg0"
        /\ calls[4].tool = "vgchange" /\ calls[4].arg = "vg1"
        /\ calls[6].tool = "sfdisk"

\* C10: the script has one additional final BIOS-boot entry after the layout
\* entries exactly when the UEFI firmware directory is absent; on UEFI the
\* number of entries equals the number of top-level layers.
C10_BiosBootEntryIffLegacy ==
    \A i \in CallsOf("sfdisk") :
        LET script == calls[i].script
            entries == Len(script) - 1
        IN  /\ efi => entries = Len(layout)
            /\ ~efi => /\ entries = Len(layout) + 1
                       /\ Last(script).size.kind = "none"
                       /\ Last(script).type = BiosBootType

W_C10 == /\ pc = "done" /\ ~efi
         /\ Len(layout) = 2
         /\ \E i \in CallsOf("sfdisk") : Len(calls[i].script) = 4

----------------------------------------------------------------------------
(* Properties of format_drive *)
FCallsOf(tool) == { i \in 1..Len(fcalls) : fcalls[i].tool = tool }

FsTools == {"mkfs.vfat", "mkfs.ext4", "mkfs.btrfs"}
ContainerTools == {"pvcreate", "luksFormat"}
CreateTools == FsTools \cup ContainerTools

Scratch == <<"/mnt/temp">>

\* the btrfs layers with subvolumes in the log, by their mkfs command
BtrfsBlocks == { m \in FCallsOf("mkfs.btrfs") : fcalls[m].part.subvolumes # <<>> }

BlockEnd(m) == m + Len(fcalls[m].part.subvolumes) + 2

\* the command the code is to issue k places after the mkfs.btrfs at m
BtrfsExpected(m, k) ==
    LET c == fcalls[m + k]
        sv == fcalls[m].part.subvolumes
    IN  /\ c.node = fcalls[m].node
        /\ IF k = 1 THEN c.tool = "mount" /\ c.val = Scratch
           ELSE IF k = Len(sv) + 2 THEN c.tool = "umount"
           ELSE c.tool = "subvolume" /\ c.flag = "create" /\ c.val = Scratch \o sv[k - 1]

\* C11: when partition_drive has returned, a device rescan (partprobe) was
\* issued after the partition-table write.
C11_RescanBeforeReturn ==
    pc = "done" => \E i \in CallsOf("sfdisk"), j \in CallsOf("partprobe") : i < j

\* C12: a command that exits with a non-zero status is the last command of
\* the operation: the operation has failed and nothing was issued after it
\* (the device-table lookups of nested calls are not counted).
C12_FailureStopsOperation ==
    \A i \in 1..Len(fcalls) :
        (fcalls[i].ran /\ fcalls[i].status # 0) =>
            /\ fpc # "done"
            /\ \A j \in (i + 1)..Len(fcalls) : fcalls[j].tool = "lsblk"

\* C13: a btrfs layer with subvolumes is made by mkfs.btrfs on its node, one
\* mount of that node at the scratch mountpoint, one subvolume create per
\* listed path in the listed order and one unmount, in this order and with
\* nothing in between; no mount, subvolume create or unmount is issued
\* outside such a run, and a finished call has issued every run to its end.
C13_BtrfsSubvolumeOrder ==
    /\ \A m \in BtrfsBlocks :
          /\ \A k \in 1..(BlockEnd(m) - m) : m + k <= Len(fcalls) => BtrfsExpected(m, k)
          /\ fpc = "done" => BlockEnd(m) <= Len(fcalls)
    /\ \A e \in FCallsOf("mount") \cup FCallsOf("subvolume") \cup FCallsOf("umount") :
          \E m \in BtrfsBlocks : m < e /\ e <= BlockEnd(m)

W_C13 ==
    /\ fpc = "done" /\ ~PRETEND
    /\ \E m \in BtrfsBlocks :
          /\ Len(fcalls[m].part.subvolumes) = 3
          /\ fcalls[m].depth = 1
          /\ fcalls[BlockEnd(m)].tool = "umount"
          /\ \A k \in m..BlockEnd(m) : fcalls[k].ran /\ fcalls[k].status = 0

\* a is a proper ancestor of the subvolume path b
IsParent(a, b) == Len(a) < Len(b) /\ SubSeq(b, 1, Len(a)) = a

\* C14: within one btrfs layer a listed parent subvolume path is created
\* before each of its listed child paths, whatever the order of the list.
C14_ParentBeforeChild ==
    \A m \in BtrfsBlocks :
        LET sv == fcalls[m].part.subvolumes IN
        \A b \in 1..Len(sv) :
            m + 1 + b <= Len(fcalls) =>
                \A a \in 1..Len(sv) :
                    IsParent(sv[a], sv[b]) =>
                        \E e \in (m + 2)..(m + b) : fcalls[e].val = Scratch \o sv[a]

\* the container command (pvcreate or luksFormat) of the layer whose nested
\* call issued the command at e; 0 for a command of the outermost call
Enclosing(e) ==
    LET ms == { m \in 1..(e - 1) : /\ fcalls[m].depth = fcalls[e].depth - 1
                                    /\ fcalls[m].tool \in ContainerTools }
    IN  IF ms = {} THEN 0 ELSE CHOOSE m \in ms : \A n \in ms : n <= m

\* the filesystem creations for the children of the container at m
ChildFs(m) == { e \in 1..Len(fcalls) : fcalls[e].tool \in FsTools /\ Enclosing(e) = m }

LvmBlocks == FCallsOf("pvcreate")

\* C15: an lvm layer is made by pvcreate on its node, then vgcreate with its
\* volume-group name on that node, then one lvcreate per child in child
\* order, with nothing in between; no vgcreate or lvcreate is issued outside
\* such a run, and every filesystem of a child logical volume is created
\* after the last lvcreate.
C15_LvmOrder ==
    /\ \A m \in LvmBlocks :
          LET p == fcalls[m].part
              n == Len(p.lvs)
          IN  /\ m + 1 <= Len(fcalls) =>
                    /\ fcalls[m + 1].tool = "vgcreate"
                    /\ fcalls[m + 1].val = <<p.name>>
                    /\ fcalls[m + 1].node = fcalls[m].node
              /\ \A k \in 1..n : m + 1 + k <= Len(fcalls) =>
                    /\ fcalls[m + 1 + k].tool = "lvcreate"
                    /\ fcalls[m + 1 + k].node = <<p.name>>
                    /\ fcalls[m + 1 + k].lv = <<"lv">> \o ToDecimal(k - 1)
              /\ \A e \in ChildFs(m) : e > m + 1 + n
              /\ fpc = "done" => Cardinality(ChildFs(m)) = n
    /\ \A e \in FCallsOf("vgcreate") \cup FCallsOf("lvcreate") :
          \E m \in LvmBlocks : m < e /\ e <= m + 1 + Len(fcalls[m].part.lvs)

W_C15 ==
    /\ fpc = "done" /\ ~PRETEND /\ ~cmdFailed
    /\ \E m \in LvmBlocks :
          /\ Len(fcalls[m].part.lvs) = 3
          /\ Cardinality(ChildFs(m)) = 3

\* C16: the k-th lvcreate of an lvm layer is named lv<k-1> and sized by the
\* k-th child: -L <token> for an absolute token, -l <p>%FREE for a
\* percentage, -l 100%FREE for the remainder; the catalog layout "lvm" gives
\* lv0 -L 8G, lv1 -l 30%FREE, lv2 -l 100%FREE in this order.
Free == <<"FREE">>

C16_LvcreateSizing ==
    \A m \in LvmBlocks :
        LET p == fcalls[m].part IN
        /\ \A k \in 1..Len(p.lvs) : m + 1 + k <= Len(fcalls) =>
              LET c == fcalls[m + 1 + k]
                  size == p.lvs[k].size
              IN  /\ c.tool = "lvcreate"
                  /\ c.lv = <<"lv">> \o ToDecimal(k - 1)
                  /\ IF size = TrueSize
                     THEN c.flag = "-l" /\ c.val = <<"1", "0", "0", "%">> \o Free
                     ELSE IF Last(size) = "%"
                     THEN c.flag = "-l" /\ c.val = size \o Free
                     ELSE c.flag = "-L" /\ c.val = size
        /\ (p = Lvm /\ m + 4 <= Len(fcalls)) =>
              /\ fcalls[m + 2].flag = "-L" /\ fcalls[m + 2].val = <<"8", "G">>
              /\ fcalls[m + 2].lv = <<"lv", "0">>
              /\ fcalls[m + 3].flag = "-l" /\ fcalls[m + 3].val = <<"3", "0", "%", "FREE">>
              /\ fcalls[m + 3].lv = <<"lv", "1">>
              /\ fcalls[m + 4].flag = "-l" /\ fcalls[m + 4].val = <<"1", "0", "0", "%", "FREE">>
              /\ fcalls[m + 4].lv = <<"lv", "2">>

W_C16 ==
    /\ fpc = "done" /\ ~PRETEND
    /\ \E m \in LvmBlocks :
          /\ fcalls[m].part = Lvm
          /\ \A k \in 2..4 : fcalls[m + k].tool = "lvcreate" /\ fcalls[m + k].ran
                             /\ fcalls[m + k].status = 0

\* C17: every filesystem creation that is run for the i-th child (i from 0)
\* of an lvm layer with volume group <vg> targets that logical volume's node
\* /dev/mapper/<vg>-lv<i>; the alias /dev/<vg>/lv<i> of the same node is
\* accepted.
C17_ChildOnItsVolume ==
    \A m \in LvmBlocks :
        \A e \in { c \in ChildFs(m) : fcalls[c].ran } :
            LET vg == fcalls[m].part.name
                lv == <<"lv">> \o ToDecimal(fcalls[e].layer - 1)
            IN  \/ fcalls[e].node = <<"/dev/mapper/", vg, "-">> \o lv
                \/ fcalls[e].node = <<"/dev/", vg, "/">> \o lv

LuksBlocks == FCallsOf("luksFormat")

\* C18: a luks layer is made by one luksFormat on its node, then the label
\* assignment on that node, then one luksOpen under the fixed mapping name,
\* with nothing in between; no label assignment or luksOpen is issued outside
\* such a run; the inside layer's filesystem is created after the luksOpen,
\* once, on /dev/mapper/<mapping name>.
C18_LuksOrder ==
    /\ \A m \in LuksBlocks :
          LET p == fcalls[m].part IN
          /\ m + 1 <= Len(fcalls) =>
                /\ fcalls[m + 1].tool = "config"
                /\ fcalls[m + 1].node = fcalls[m].node
                /\ fcalls[m + 1].flag = "--label" /\ fcalls[m + 1].val = <<p.label>>
          /\ m + 2 <= Len(fcalls) =>
                /\ fcalls[m + 2].tool = "luksOpen"
                /\ fcalls[m + 2].node = <<"/dev/disk/by-label/", p.label>>
                /\ fcalls[m + 2].val = <<"xenia">>
          /\ \A e \in ChildFs(m) :
                e > m + 2 /\ fcalls[e].node = <<"/dev/mapper/", "xenia">>
          /\ Cardinality(ChildFs(m)) <= 1
          /\ fpc = "done" => Cardinality(ChildFs(m)) = 1
    /\ \A e \in FCallsOf("config") \cup FCallsOf("luksOpen") :
          \E m \in LuksBlocks : m < e /\ e <= m + 2

W_C18 ==
    /\ fpc = "done" /\ ~PRETEND /\ ~cmdFailed
    /\ \E m \in LuksBlocks : \E e \in ChildFs(m) :
          fcalls[e].tool = "mkfs.btrfs" /\ fcalls[e].node = <<"/dev/mapper/", "xenia">>

\* C19: every command that is run to format the k-th top-level layer targets
\* <base>p<k> when the base device name ends in a digit and <base><k> when
\* it ends in a letter.
C19_PartitionNodeNaming ==
    \A e \in 1..Len(fcalls) :
        (Len(flayout) <= 9 /\ fcalls[e].depth = 1 /\ fcalls[e].tool \in CreateTools
         /\ fcalls[e].ran) =>
            fcalls[e].node = <<"/dev/">> \o (IF fdrive.digitEnd THEN <<fdrive.name, "p">>
                                             ELSE <<fdrive.name>>)
                                         \o ToDecimal(fcalls[e].layer)

\* no partition node of the drive is in the device table
NoNodeVisible == \A k \in 1..Len(table) : ~Matches(<<fdrive.name>>, table[k])

\* C20: with no partition node of the device visible, format_drive does not
\* return normally and runs no filesystem-creation command, in particular
\* none on the whole-disk device.
C20_MissingNodeReported ==
    NoNodeVisible =>
        /\ \A e \in 1..Len(fcalls) : fcalls[e].ran => fcalls[e].tool \notin CreateTools
        /\ fpc # "done"

\* a layer that breaks a structural rule
IsBad(p) == \/ p.format = "luks" /\ ~p.hasInside
            \/ p.format = "lvm" /\ (~p.hasName \/ ~p.hasLvs)

\* C21: for a layout with a luks layer without inside, or an lvm layer without
\* logical volumes or volume-group name, format_drive runs no destructive
\* command (mkfs, pvcreate, luksFormat).
C21_StructureCheckedFirst ==
    (\E k \in 1..Len(flayout) : IsBad(flayout[k])) =>
        \A e \in 1..Len(fcalls) : fcalls[e].ran => fcalls[e].tool \notin CreateTools

\* the nested layers of a composite layer
Children(p) == IF p.format = "lvm" THEN p.lvs
               ELSE IF p.format = "luks" THEN p.inside ELSE <<>>

\* the calls of format_drive in the log: 0 is the outermost call, m the
\* nested call made for the container created at m
FormatCalls == {0} \cup { m \in 1..Len(fcalls) : fcalls[m].tool \in ContainerTools }

LayoutOf(m) == IF m = 0 THEN flayout ELSE Children(fcalls[m].part)

\* the creation commands issued by the call m for its own layers
Creations(m) == { e \in 1..Len(fcalls) : fcalls[e].tool \in CreateTools /\ Enclosing(e) = m }

SetupTools == {"vgcreate", "lvcreate", "config", "luksOpen"}

CreateToolOf(format) ==
    CASE format = "vfat" -> "mkfs.vfat" [] format = "ext4" -> "mkfs.ext4"
      [] format = "btrfs" -> "mkfs.btrfs" [] format = "lvm" -> "pvcreate"
      [] format = "luks" -> "luksFormat"

\* C27: in every call of format_drive, nested calls included, the creation
\* commands are one per layer in layer order, each with the tool of the
\* layer's format; a finished run has created every layer; the layers of a
\* nested call are created after every setup command of their container, and
\* before the enclosing call creates its next layer.
C27_LayerLifecycle ==
    LET n == Len(fcalls)
        enc == [e \in 1..n |-> Enclosing(e)]
        created == { e \in 1..n : fcalls[e].tool \in CreateTools }
        made == [m \in FormatCalls |-> { e \in created : enc[e] = m }]
    IN  /\ \A e \in 1..n : fcalls[e].depth > 1 => enc[e] # 0
        /\ \A m \in FormatCalls :
              /\ \A e \in made[m] :
                    /\ fcalls[e].layer = Cardinality({ x \in made[m] : x <= e })
                    /\ fcalls[e].layer <= Len(LayoutOf(m))
                    /\ fcalls[e].part = LayoutOf(m)[fcalls[e].layer]
                    /\ fcalls[e].tool = CreateToolOf(fcalls[e].part.format)
                    /\ m # 0 =>
                          /\ e > m
                          /\ \A x \in (m + 1)..(e - 1) :
                                fcalls[x].depth = fcalls[m].depth =>
                                    fcalls[x].tool \in SetupTools
                          /\ \A x \in (e + 1)..n :
                                (fcalls[x].depth = fcalls[m].depth
                                 /\ fcalls[x].tool \in SetupTools) =>
                                    \E c \in (e + 1)..x : /\ fcalls[c].tool \in ContainerTools
                                                          /\ fcalls[c].depth = fcalls[m].depth
              /\ fpc = "done" => Cardinality(made[m]) = Len(LayoutOf(m))

W_C27 ==
    /\ fpc = "done" /\ ~PRETEND /\ ~cmdFailed
    /\ flayout = <<Lvm, Luks>>
    /\ Cardinality({ e \in 1..Len(fcalls) : fcalls[e].tool \in CreateTools }) = 6

\* C29: when partition nodes of the drive are listed (the first one found
\* is number 1), the i-th sibling (from 0) is formatted on the node numbered
\* 1 + i, for ten and more siblings too.
C29_ConsecutiveNodes ==
    ~NoNodeVisible =>
        \A e \in 1..Len(fcalls) :
            (fcalls[e].depth = 1 /\ fcalls[e].tool \in CreateTools) =>
                fcalls[e].node = <<"/dev/">> \o PartNode(fdrive, fcalls[e].layer)

----------------------------------------------------------------------------
(* drive.partition_drive against installer.partition_drive *)
IsPrepare(c) == c.tool \in {"umount", "vgchange"}

\* the sfdisk entry both implementations are to write for a layer on UEFI
SameEntry(line, partition, W) ==
    /\ line.text = "entry" /\ line.type = partition.type
    /\ IF partition.size = TrueSize THEN line.size = NoSize
       ELSE IF Last(partition.size) = "%"
       THEN LET pct == BigToInt(ParseInt(Front(partition.size))) IN
            /\ line.size.kind = "num"
            /\ 2 * (100 * line.size.num - W * pct) \in (0 - 100)..100
       ELSE line.size = TokSize(partition.size)

\* C30: on a UEFI system a finished partition_drive, whichever of the two
\* implementations ran, has issued the unmount followed by one vgchange per
\* reported volume group, and one sfdisk script: the gpt label and one entry
\* per layer in layout order with the layer's type, no size for the
\* remainder, the token for an absolute size and the rounded share of the
\* whole device for a percentage.
C30_SameCommandsOnUefi ==
    (efi /\ pc = "done") =>
        LET prep == SelectSeq(calls, IsPrepare)
            groups == IF PRETEND THEN <<>> ELSE vg_lines(vgsOut)
        IN  /\ Len(prep) = 1 + Len(groups)
            /\ prep[1].tool = "umount"
            /\ \A k \in 1..Len(groups) :
                  prep[k + 1].tool = "vgchange" /\ prep[k + 1].arg = groups[k]
            /\ Cardinality(CallsOf("sfdisk")) = 1
            /\ \A i \in CallsOf("sfdisk") :
                  /\ Len(calls[i].script) = 1 + Len(layout)
                  /\ calls[i].script[1] = LabelLine
                  /\ \A k \in 1..Len(layout) :
                        SameEntry(calls[i].script[k + 1], layout[k], drive_size)

W_C30 ==
    /\ efi /\ pc = "done" /\ impl = "installer" /\ ~PRETEND
    /\ Len(layout) = 3
    /\ \E k \in 1..3 : layout[k].size = TrueSize
    /\ \E k \in 1..3 : layout[k].size # TrueSize /\ Last(layout[k].size) = "%"
    /\ Len(vg_lines(vgsOut)) = 2
    /\ drive_size > 0

----------------------------------------------------------------------------
(* PRETEND over a whole partition_drive and format_drive *)
Mutating == {"umount", "vgchange", "sfdisk", "partprobe", "mount", "subvolume",
             "mkfs.vfat", "mkfs.ext4", "mkfs.btrfs", "pvcreate", "vgcreate", "lvcreate",
             "luksFormat", "config", "luksOpen"}

\* C25: while PRETEND is set, every command that is run, by partition_drive
\* and by the format_drive that follows it, is an lsblk query; no unmount,
\* vgchange, sfdisk, mkfs, LVM or cryptsetup command is run.
C25_PretendRunsOnlyQueries ==
    PRETEND =>
        /\ \A i \in 1..Len(calls) :
              /\ calls[i].ran => calls[i].tool = "lsblk"
              /\ calls[i].tool \in Mutating => ~calls[i].ran
        /\ \A i \in 1..Len(fcalls) :
              /\ fcalls[i].ran => fcalls[i].tool = "lsblk"
              /\ fcalls[i].tool \in Mutating => ~fcalls[i].ran

W_C25 ==
    /\ PRETEND /\ pc = "done" /\ fpc = "done"
    /\ \E i \in CallsOf("sfdisk") : ~calls[i].ran
    /\ \E i \in CallsOf("lsblk") : calls[i].ran
    /\ \E i \in FCallsOf("lsblk") : fcalls[i].ran
    /\ \E i \in FCallsOf("luksFormat") : ~fcalls[i].ran
    /\ \E i \in FCallsOf("mkfs.btrfs") : ~fcalls[i].ran

----------------------------------------------------------------------------
(* Two format_drive processes *)
\* the process has run a mount at the scratch mountpoint and not yet the
\* unmount that follows it
ScratchInUse(log) ==
    Cardinality({ i \in 1..Len(log) : log[i].tool = "mount" /\ log[i].ran })
        > Cardinality({ i \in 1..Len(log) : log[i].tool = "umount" /\ log[i].ran })

\* the device-mapper names the process has opened
Mappings(log) == { log[i].val : i \in { k \in 1..Len(log) : log[k].tool = "luksOpen" /\ log[k].ran } }

\* C26: two format_drive processes on different devices never have the
\* scratch mountpoint in use at the same time, and open no device-mapper
\* mapping under the same name.
C26_NoSharedResource ==
    /\ ~(ScratchInUse(fcalls) /\ ScratchInUse(parked.fcalls))
    /\ Mappings(fcalls) \cap Mappings(parked.fcalls) = {}

----------------------------------------------------------------------------
(* Properties of main() and parse_config *)
EventsOf(e) == { i \in 1..Len(events) : events[i] = e }

\* C22: in every run of main() a call of partition_drive is preceded by the
\* user's confirmation.
C22_ConfirmedBeforeErase ==
    \A i \in EventsOf("partition_drive") : \E j \in EventsOf("confirm") : j < i

\* a key of the configuration file is missing or its value is not valid
SomeKeyInvalid == \E k \in 1..NKeys : config[k] \in {"missing", "bad"}

C24_BiosRejectedFirst ==
    (~efi /\ mpc # "start") =>
        /\ mpc = "exit"
        /\ events = <<"die">>

\* C28: in interactive mode, as long as the user has accepted the default at
\* every prompt, no key has been asked twice: every default settles its key,
\* so parse_config returns after at most one prompt per key.
C28_DefaultsSettleEveryKey ==
    (interactive /\ \A i \in 1..Len(answers) : answers[i].ans = "default") =>
        \A i, j \in 1..Len(answers) : i # j => answers[i].key # answers[j].key

====
